---- MODULE Spec2Model ----
(***************************************************************************)
(* Model of src/proxy.py: class Proxy (get_proxy, _fetch_proxy,            *)
(* _test_proxy_batch, _test_single_proxy, _cache_bad_proxy) over a         *)
(* persistent diskcache.Cache.                                             *)
(*                                                                         *)
(* Every action is one stretch of code between two awaits of the asyncio   *)
(* event loop, which runs such a stretch without interruption.  The        *)
(* outcome of an outbound request (liveness probe, source download) is     *)
(* chosen by the environment when the awaiting coroutine resumes.          *)
(***************************************************************************)
EXTENDS Integers, Sequences, FiniteSets, TLC

\* ---- bounds of the model ------------------------------------------------
\* longest JSON array the candidate source answers with
MaxLen == 3
\* largest batch_size a Proxy instance is constructed with
MaxBatchSize == 3
\* longest JSON array of the source when calls of get_proxy overlap
OverlapMaxLen == 2

\* ---- endpoints ----------------------------------------------------------
\* An endpoint string "a.b.c.d:port" is the tuple of its numbers.
E1 == <<1, 2, 3, 4, 8080>>
E2 == <<5, 6, 7, 8, 3128>>
E3 == <<9, 9, 9, 9, 80>>
X1 == <<172, 67, 1, 1, 8080>>
X2 == <<8, 172, 64, 1, 80>>

Endpoints == {E1, E2, E3, X1, X2}

\* the endpoints the source names when calls of get_proxy overlap
OverlapEndpoints == {E1, E2}

\* the coroutines that call get_proxy on the one Proxy instance; Main is
\* the one that awaits each call before the next (asyncio.run of the usage)
Callers == {"a", "b"}
Main == "a"

\* cache.get(key) answers None for a missing key, the stored value otherwise
Absent == <<>>
Stored(v) == <<v>>
ValueOf(entry) == entry[1]

Min(a, b) == IF a < b THEN a ELSE b

\* all lists over S of length at most n
SeqsUpTo(S, n) == UNION {[1..k -> S] : k \in 0..n}

VARIABLES
    cache,       \* self.cache: working_proxy, http_proxies_requested, bad_proxies
    proxy_url,   \* self.proxy_url: TRUE when PROXY_LIST_HTTP is set
    batch_size,  \* self.batch_size
    call         \* per caller: position in get_proxy, its locals, and the
                 \* record of what this call has done so far

vars == <<cache, proxy_url, batch_size, call>>

\* ---- pure parts of _fetch_proxy -----------------------------------------
\* '172.67' in p or '172.64' in p: the text "172.67" can only sit on two
\* neighbouring octets of the address
IsCloudflare(p) ==
    \E i \in 1..3 : p[i] = 172 /\ p[i + 1] \in {67, 64}

\* the list comprehension over response_json
ParseSource(response_json) ==
    SelectSeq(response_json, LAMBDA p : ~IsCloudflare(p))

\* the known bad proxies left in the list
FilterBadNone(l, bad) ==
    l

\* [proxy for proxy in l if proxy not in bad_proxies]
FilterBad(l, bad) ==
    SelectSeq(l, LAMBDA p : p \notin bad)

\* the slice forgotten: every candidate goes on to the tests
FirstBatchWhole(l) ==
    l

\* proxy_list[0:self.batch_size]
FirstBatch(l) ==
    SubSeq(l, 1, Min(batch_size, Len(l)))

\* the cap taken from batch_size alone
MaxAttemptsBatchSize(all_proxies) ==
    batch_size

\* min(self.batch_size, len(all_proxies))
MaxAttempts(all_proxies) ==
    Min(batch_size, Len(all_proxies))

\* len(all_proxies) >= self.batch_size
UseBatch(all_proxies) ==
    Len(all_proxies) >= batch_size

\* ---- the state of one call ----------------------------------------------
\* pc: idle | revalidate | fetching | batch | probe | returned | raised
\* probes, healthy, fetches, ops, emptyFetch record what the call did:
\*   probes     the liveness checks it started, in order
\*   healthy    the endpoints a liveness check of this call reported working
\*   fetches    the requests it sent to proxy_url
\*   ops        the cache writes and deletes it issued
\*   emptyFetch the filtered list of a fresh download was empty
\*   tested     the call got as far as the tests of its candidates
\*   revalOk, revalFailed   what the probe of the cached proxy reported
\*   startBad   bad_proxies when the call began
\*   dropped    the entries of the download the network filter removed
\*   completed  the tasks of the batch the as_completed loop has taken, in
\*              the order of their completion
\*   unhealthy  the candidates a probe of this call reported not working
\*   foundList  the http_proxies_requested entry the call read its
\*              candidates from
\* pending: the tasks of the batch still in flight
\*   prevHit, prevResult    the caller's previous call returned its cached
\*                          proxy after a healthy probe, and what it returned
IdleCall ==
    [pc |-> "idle", cached_proxy |-> Absent, proxy_list |-> <<>>,
     all_proxies |-> <<>>, max_attempts |-> 0, attempts |-> 0,
     proxy |-> Absent, pending |-> {}, result |-> Absent,
     probes |-> <<>>, healthy |-> {}, fetches |-> 0, ops |-> {},
     emptyFetch |-> FALSE, tested |-> FALSE,
     revalOk |-> FALSE, revalFailed |-> FALSE,
     prevHit |-> FALSE, prevResult |-> Absent, startBad |-> {},
     dropped |-> {}, completed |-> <<>>,
     unhealthy |-> {}, foundList |-> Absent]

\* one started liveness check; stale: the endpoint was in bad_proxies while
\* the http_proxies_requested entry was live
Probe(k, p, phase) ==
    [ep |-> p, phase |-> phase,
     stale |-> (p \in k.bad_proxies /\ k.http_proxies_requested # Absent)]

\* a return statement of get_proxy
Return(k, s, r) ==
    [cache |-> k, s |-> [s EXCEPT !.pc = "returned", !.result = r]]

\* an exception leaving get_proxy
Raise(k, s) ==
    [cache |-> k, s |-> [s EXCEPT !.pc = "raised"]]

\* the bad set stored anew with the one failed proxy
CacheBadProxyOverwrite(k, bad_proxy) ==
    [k EXCEPT !.bad_proxies = {bad_proxy}]

\* _cache_bad_proxy
CacheBadProxy(k, bad_proxy) ==
    [k EXCEPT !.bad_proxies = k.bad_proxies \cup {bad_proxy}]

\* the hit returned without the cache write
SetWorkingSkipped(k, p) ==
    k

\* self.cache.set('working_proxy', proxy)
SetWorking(k, p) ==
    [k EXCEPT !.working_proxy = Stored(p)]

\* the while loop taking the candidate from the right end: all_proxies.pop()
SeqLoopPopRight(k, s) ==
    IF Len(s.all_proxies) > 0 /\ s.attempts < s.max_attempts
    THEN LET p == s.all_proxies[Len(s.all_proxies)]
         IN  [cache |-> k,
              s |-> [s EXCEPT !.pc = "probe", !.proxy = Stored(p),
                              !.all_proxies = SubSeq(s.all_proxies, 1,
                                                     Len(s.all_proxies) - 1),
                              !.attempts = s.attempts + 1,
                              !.probes = Append(s.probes, Probe(k, p, "seq"))]]
    ELSE Return(k, s, Absent)

\* the while loop of _fetch_proxy up to the await of the next probe
SeqLoop(k, s) ==
    IF Len(s.all_proxies) > 0 /\ s.attempts < s.max_attempts
    THEN LET p == Head(s.all_proxies)
         IN  [cache |-> k,
              s |-> [s EXCEPT !.pc = "probe", !.proxy = Stored(p),
                              !.all_proxies = Tail(s.all_proxies),
                              !.attempts = s.attempts + 1,
                              !.probes = Append(s.probes, Probe(k, p, "seq"))]]
    ELSE Return(k, s, Absent)

\* _test_proxy_batch up to the first await of as_completed: one task per proxy
StartBatch(k, s) ==
    [cache |-> k,
     s |-> [s EXCEPT !.pc = "batch",
                     !.pending = 1..Len(s.all_proxies),
                     !.probes = s.probes \o
                        [i \in 1..Len(s.all_proxies) |->
                            Probe(k, s.all_proxies[i], "batch")]]]

\* _fetch_proxy from the print of the counts on: max_attempts, then the
\* batch test or the while loop
StartTests(k, s0) ==
    LET s == [s0 EXCEPT !.max_attempts = MaxAttempts(s0.all_proxies),
                        !.attempts = 0, !.tested = TRUE]
    IN  IF UseBatch(s.all_proxies) THEN StartBatch(k, s) ELSE SeqLoop(k, s)

\* the filtered list written back over the cached one
UseCachedListRewriting(k, s) ==
    LET cached_proxies == ValueOf(k.http_proxies_requested)
        filtered_proxies == FilterBad(cached_proxies, k.bad_proxies)
    IN  StartTests([k EXCEPT !.http_proxies_requested = Stored(filtered_proxies)],
                   [s EXCEPT !.all_proxies = FirstBatch(filtered_proxies),
                             !.proxy_list = filtered_proxies,
                             !.foundList = k.http_proxies_requested,
                             !.ops = @ \cup {"set http_proxies_requested"}])

\* the else branch of _fetch_proxy: http_proxies_requested is cached
UseCachedList(k, s) ==
    LET cached_proxies == ValueOf(k.http_proxies_requested)
        filtered_proxies == FilterBad(cached_proxies, k.bad_proxies)
    IN  StartTests(k, [s EXCEPT !.all_proxies = FirstBatch(filtered_proxies),
                                !.proxy_list = filtered_proxies,
                                !.foundList = k.http_proxies_requested])

\* _fetch_proxy without the test of self.proxy_url
FetchProxyAnyUrl(k, s) ==
    IF k.http_proxies_requested = Absent
    THEN [cache |-> k,
          s |-> [s EXCEPT !.pc = "fetching", !.fetches = s.fetches + 1]]
    ELSE UseCachedList(k, s)

\* _fetch_proxy up to its first await
FetchProxy(k, s) ==
    IF ~proxy_url
    THEN Return(k, s, Absent)
    ELSE IF k.http_proxies_requested = Absent
         THEN [cache |-> k,
               s |-> [s EXCEPT !.pc = "fetching", !.fetches = s.fetches + 1]]
         ELSE UseCachedList(k, s)

\* get_proxy up to its first await
GetProxy(k, s0) ==
    LET hit == s0.pc = "returned" /\ s0.revalOk
        s == [IdleCall EXCEPT !.startBad = k.bad_proxies,
                              !.prevHit = hit,
                              !.prevResult = IF hit THEN s0.result ELSE Absent]
    IN  IF k.working_proxy # Absent
        THEN [cache |-> k,
              s |-> [s EXCEPT !.pc = "revalidate",
                              !.cached_proxy = k.working_proxy,
                              !.probes = <<Probe(k, ValueOf(k.working_proxy),
                                                 "revalidate")>>]]
        ELSE FetchProxy(k, s)

\* the cached proxy returned whatever its probe reported
RevalidatedTrusting(k, s0, is_working) ==
    Return(k, [s0 EXCEPT !.healthy = IF is_working
                                     THEN @ \cup {ValueOf(s0.cached_proxy)}
                                     ELSE @,
                         !.revalOk = is_working,
                         !.revalFailed = ~is_working],
           s0.cached_proxy)

\* the dead cached proxy left in the cache
RevalidatedKeeping(k, s0, is_working) ==
    IF is_working
    THEN Return(k, [s0 EXCEPT !.healthy = @ \cup {ValueOf(s0.cached_proxy)},
                              !.revalOk = TRUE],
                s0.cached_proxy)
    ELSE FetchProxy(k, [s0 EXCEPT !.revalFailed = TRUE])

\* the return of the healthy cached proxy missing: the call goes on to fetch
RevalidatedFallThrough(k, s0, is_working) ==
    IF is_working
    THEN FetchProxy(k, [s0 EXCEPT !.healthy = @ \cup {ValueOf(s0.cached_proxy)},
                                  !.revalOk = TRUE])
    ELSE FetchProxy([k EXCEPT !.working_proxy = Absent],
                    [s0 EXCEPT !.ops = @ \cup {"delete working_proxy"},
                               !.revalFailed = TRUE])

\* get_proxy after the probe of the cached proxy
Revalidated(k, s0, is_working) ==
    IF is_working
    THEN Return(k, [s0 EXCEPT !.healthy = @ \cup {ValueOf(s0.cached_proxy)},
                              !.revalOk = TRUE],
                s0.cached_proxy)
    ELSE FetchProxy([k EXCEPT !.working_proxy = Absent],
                    [s0 EXCEPT !.ops = @ \cup {"delete working_proxy"},
                               !.revalFailed = TRUE])

\* the body of `async with session.get(self.proxy_url)` for a parsed answer
Fetched(k, s0, response_json) ==
    LET parsed == ParseSource(response_json)
        proxy_list == FilterBad(parsed, k.bad_proxies)
        \* self.get_proxy() is not awaited: the coroutine object is dropped
        s00 == [s0 EXCEPT !.dropped =
                   {response_json[i] : i \in DOMAIN response_json}
                   \ {parsed[i] : i \in DOMAIN parsed}]
        s1 == IF Len(proxy_list) = 0
              THEN [s00 EXCEPT !.emptyFetch = TRUE,
                               !.ops = @ \cup {"delete http_proxies_requested"}]
              ELSE s00
        k1 == [k EXCEPT !.http_proxies_requested = Stored(proxy_list)]
    IN  StartTests(k1, [s1 EXCEPT !.all_proxies = FirstBatch(proxy_list),
                                  !.proxy_list = proxy_list,
                                  !.ops = @ \cup {"set http_proxies_requested"}])

\* the failures of the batch written to bad_proxies in one go when the loop
\* has taken the last task
BatchResultDeferred(k, s0, i, is_working) ==
    LET p == s0.all_proxies[i]
    IN  IF is_working
        THEN Return(SetWorking(k, p),
                    [s0 EXCEPT !.healthy = @ \cup {p}, !.pending = @ \ {i},
                               !.completed = Append(@, i),
                               !.ops = @ \cup {"set working_proxy"}],
                    Stored(p))
        ELSE LET s1 == [s0 EXCEPT !.pending = @ \ {i},
                                  !.completed = Append(@, i),
                                  !.unhealthy = @ \cup {p},
                                  !.ops = @ \cup {"set bad_proxies"}]
                 k1 == [k EXCEPT !.bad_proxies = @ \cup s1.unhealthy]
             IN  IF s1.pending = {}
                 THEN SeqLoop(k1, s1)
                 ELSE [cache |-> k, s |-> s1]

\* one turn of the as_completed loop of _test_proxy_batch
BatchResult(k, s0, i, is_working) ==
    LET p == s0.all_proxies[i]
    IN  IF is_working
        THEN Return(SetWorking(k, p),
                    [s0 EXCEPT !.healthy = @ \cup {p}, !.pending = @ \ {i},
                               !.completed = Append(@, i),
                               !.ops = @ \cup {"set working_proxy"}],
                    Stored(p))
        ELSE LET k1 == CacheBadProxy(k, p)
                 s1 == [s0 EXCEPT !.pending = @ \ {i},
                                  !.completed = Append(@, i),
                                  !.unhealthy = @ \cup {p},
                                  !.ops = @ \cup {"set bad_proxies"}]
             IN  IF s1.pending = {}
                 THEN SeqLoop(k1, s1)
                 ELSE [cache |-> k1, s |-> s1]

\* a late task that writes its own healthy result into the cache
LateResultWriting(k, s0, i, is_working) ==
    [cache |-> IF is_working
               THEN SetWorking(k, s0.all_proxies[i])
               ELSE CacheBadProxy(k, s0.all_proxies[i]),
     s |-> [s0 EXCEPT !.pending = @ \ {i}]]

\* a task of the batch that completes after _test_proxy_batch has returned
\* its winner: the loop that reads the results is gone, the result is dropped
LateResult(k, s0, i, is_working) ==
    [cache |-> k, s |-> [s0 EXCEPT !.pending = @ \ {i}]]

\* the while loop of _fetch_proxy after the probe of `proxy`
SeqResult(k, s0, is_working) ==
    LET p == ValueOf(s0.proxy)
    IN  IF is_working
        THEN Return(SetWorking(k, p),
                    [s0 EXCEPT !.healthy = @ \cup {p},
                               !.ops = @ \cup {"set working_proxy"}],
                    Stored(p))
        ELSE SeqLoop(CacheBadProxy(k, p),
                     [s0 EXCEPT !.unhealthy = @ \cup {p},
                                !.ops = @ \cup {"set bad_proxies"}])

\* ---- actions --------------------------------------------------------------
Apply(c, r) ==
    /\ cache' = r.cache
    /\ call' = [call EXCEPT ![c] = r.s]
    /\ UNCHANGED <<proxy_url, batch_size>>

Active(c) == call[c].pc \in {"revalidate", "fetching", "batch", "probe"}

\* a coroutine calls get_proxy
Call(c) ==
    /\ ~Active(c)
    /\ Apply(c, GetProxy(cache, call[c]))

\* the probe of the cached proxy completes
RevalidateDone(c) ==
    /\ call[c].pc = "revalidate"
    /\ \E is_working \in BOOLEAN :
          Apply(c, Revalidated(cache, call[c], is_working))

\* the download of the candidate list completes: a JSON array of records
\* with a proxy field
SourceAnswers(c) ==
    /\ call[c].pc = "fetching"
    /\ \E response_json \in SeqsUpTo(Endpoints, MaxLen) :
          Apply(c, Fetched(cache, call[c], response_json))

\* the same, for the calls that overlap
SourceAnswersOverlap(c) ==
    /\ call[c].pc = "fetching"
    /\ \E response_json \in SeqsUpTo(OverlapEndpoints, OverlapMaxLen) :
          Apply(c, Fetched(cache, call[c], response_json))

\* the download fails: session.get raises, response.json() raises, or a
\* record has no 'proxy' key
SourceFails(c) ==
    /\ call[c].pc = "fetching"
    /\ \E failure \in {"unreachable", "invalid json", "no proxy field"} :
          Apply(c, Raise(cache, call[c]))

\* one task of the batch completes
BatchTaskDone(c) ==
    /\ call[c].pc = "batch"
    /\ \E i \in call[c].pending, is_working \in BOOLEAN :
          Apply(c, BatchResult(cache, call[c], i, is_working))

\* one task of a batch that already has its winner completes
BatchTaskLate(c) ==
    /\ call[c].pc = "returned"
    /\ \E i \in call[c].pending, is_working \in BOOLEAN :
          Apply(c, LateResult(cache, call[c], i, is_working))

\* the probe of the while loop completes
ProbeDone(c) ==
    /\ call[c].pc = "probe"
    /\ \E is_working \in BOOLEAN :
          Apply(c, SeqResult(cache, call[c], is_working))

\* the http_proxies_requested entry reaches its expire time
Expire ==
    /\ cache.http_proxies_requested # Absent
    /\ cache' = [cache EXCEPT !.http_proxies_requested = Absent]
    /\ UNCHANGED <<proxy_url, batch_size, call>>

\* the process ends and a later one constructs Proxy(batch_size) over the
\* same cache directory, with the environment of that run
Restart ==
    /\ \A c \in Callers : ~Active(c)
    /\ proxy_url' \in BOOLEAN
    /\ batch_size' \in 1..MaxBatchSize
    /\ call' = [c \in Callers |-> IdleCall]
    /\ UNCHANGED cache

Init ==
    /\ cache = [working_proxy |-> Absent, http_proxies_requested |-> Absent,
                bad_proxies |-> {}]
    /\ proxy_url \in BOOLEAN
    /\ batch_size \in 1..MaxBatchSize
    /\ call = [c \in Callers |-> IdleCall]

\* get_proxy is awaited call after call by Main
Next ==
    \/ Call(Main)
    \/ RevalidateDone(Main)
    \/ SourceAnswers(Main)
    \/ SourceFails(Main)
    \/ BatchTaskDone(Main)
    \/ BatchTaskLate(Main)
    \/ ProbeDone(Main)
    \/ Expire
    \/ Restart

Spec == Init /\ [][Next]_vars

\* a coroutine makes its one call of the run, as test_get_proxy does
CallOnce(c) ==
    /\ call[c].pc = "idle"
    /\ Call(c)

\* get_proxy is called by several coroutines of one event loop
\* (asyncio.gather of test_get_proxy): their stretches between awaits
\* interleave freely; the cache lives on from run to run
NextOverlap ==
    \/ \E c \in Callers : CallOnce(c)
    \/ \E c \in Callers : RevalidateDone(c)
    \/ \E c \in Callers : SourceAnswersOverlap(c)
    \/ \E c \in Callers : SourceFails(c)
    \/ \E c \in Callers : BatchTaskDone(c)
    \/ \E c \in Callers : BatchTaskLate(c)
    \/ \E c \in Callers : ProbeDone(c)
    \/ Restart

SpecOverlap == Init /\ [][NextOverlap]_vars

\* ---- what a call did, read off its record ---------------------------------
EndpointsOf(q) == [i \in DOMAIN q |-> q[i].ep]
ProbesIn(c, phase) ==
    EndpointsOf(SelectSeq(call[c].probes, LAMBDA pr : pr.phase = phase))
IsPrefix(a, b) == Len(a) <= Len(b) /\ SubSeq(b, 1, Len(a)) = a
Returned(c) == call[c].pc = "returned"
ReturnedNone(c) == Returned(c) /\ call[c].result = Absent
ReturnedEndpoint(c) == Returned(c) /\ call[c].result # Absent
ListOps == {"set http_proxies_requested", "delete http_proxies_requested",
            "set bad_proxies"}

\* ---- claims ---------------------------------------------------------------

\* C1: every endpoint get_proxy returns was reported healthy by a liveness
\* check made during that same call; the cached working_proxy is returned
\* only after its revalidation in that call.
C1_ReturnedWasCheckedHealthy ==
    \A c \in Callers :
        ReturnedEndpoint(c) => ValueOf(call[c].result) \in call[c].healthy

\* a call returned the endpoint it read from working_proxy
C1_Witness ==
    \E c \in Callers :
        /\ ReturnedEndpoint(c)
        /\ call[c].cached_proxy # Absent
        /\ call[c].result = call[c].cached_proxy

\* C2: get_proxy never raises, whatever fails.
C2_NeverRaises ==
    \A c \in Callers : call[c].pc # "raised"

\* C3: the liveness checker is never invoked on a member of bad_proxies
\* while the http_proxies_requested entry it was recorded under is live.
C3_BadNeverProbedAgain ==
    \A c \in Callers :
        \A i \in DOMAIN call[c].probes : ~call[c].probes[i].stale

\* C4: a call whose fresh download filtered to the empty list and that ended
\* in none made exactly one retry download, two requests in all.
C4_OneRetryFetch ==
    \A c \in Callers :
        (ReturnedNone(c) /\ call[c].emptyFetch) => call[c].fetches = 2

\* C5 as stated: without proxy_url every call returns none, sends no request
\* to the source and writes neither the list nor the bad set.
C5_NoUrlReturnsNone ==
    \A c \in Callers :
        (~proxy_url /\ Returned(c)) =>
            /\ call[c].result = Absent
            /\ call[c].fetches = 0
            /\ call[c].ops \cap ListOps = {}

\* C5 amended: without proxy_url a call sends no request to the source,
\* starts no test of a candidate, never raises, writes neither the list nor
\* the bad set, and returns none unless the cached working_proxy was probed
\* healthy in this call, which it then returns.
C5_NoUrlNoFetch ==
    \A c \in Callers :
        ~proxy_url =>
            /\ call[c].pc \in {"idle", "revalidate", "returned"}
            /\ call[c].fetches = 0
            /\ ~call[c].tested
            /\ call[c].ops \cap ListOps = {}
            /\ Returned(c) =>
                  \/ call[c].result = Absent
                  \/ call[c].revalOk /\ call[c].result = call[c].cached_proxy

\* without proxy_url, the cached proxy failed its probe and the call
\* returned none
C5_Witness ==
    \E c \in Callers :
        ~proxy_url /\ ReturnedNone(c) /\ call[c].revalFailed

\* C6: when a call returns an endpoint, working_proxy holds that endpoint.
C6_ReturnedIsWorkingProxy ==
    \A c \in Callers :
        ReturnedEndpoint(c) => cache.working_proxy = call[c].result

\* a test of a candidate hit
C6_Witness ==
    \E c \in Callers :
        ReturnedEndpoint(c) /\ call[c].tested /\ call[c].cached_proxy = Absent

\* C7: once the cached proxy failed its revalidation, working_proxy is
\* absent from then on (fetch started, fetch failed, call ended in none)
\* until a liveness check of a candidate succeeds.
C7_DeletedUntilNewSuccess ==
    \A c \in Callers :
        (call[c].revalFailed /\ call[c].healthy = {}) =>
            cache.working_proxy = Absent

\* the cached proxy failed, candidates were tested, all failed
C7_Witness ==
    \E c \in Callers :
        /\ call[c].revalFailed
        /\ ReturnedNone(c)
        /\ Len(call[c].probes) > 1

\* C8: a call that finds a healthy cached proxy makes one liveness check and
\* no download, returns the cached endpoint, issues no cache write and
\* leaves working_proxy as it was; the next such call returns the same
\* endpoint.
C8_CachedHitIdempotent ==
    \A c \in Callers :
        (Returned(c) /\ call[c].revalOk) =>
            /\ Len(call[c].probes) = 1
            /\ call[c].fetches = 0
            /\ call[c].ops = {}
            /\ call[c].result = call[c].cached_proxy
            /\ cache.working_proxy = call[c].cached_proxy
            /\ call[c].prevHit => call[c].result = call[c].prevResult

\* the second of two successive calls that both hit the healthy cached proxy
C8_Witness ==
    \E c \in Callers :
        Returned(c) /\ call[c].revalOk /\ call[c].prevHit

\* C9: with more than batch_size candidates after filtering, the batch is
\* started on exactly the first batch_size of them in list order, and the
\* while loop probes only candidates of those first batch_size positions.
C9_OnlyFirstBatchTested ==
    \A c \in Callers :
        (call[c].tested /\ Len(call[c].proxy_list) > batch_size) =>
            /\ ProbesIn(c, "batch") = SubSeq(call[c].proxy_list, 1, batch_size)
            /\ IsPrefix(ProbesIn(c, "seq"),
                        SubSeq(call[c].proxy_list, 1, batch_size))

\* more candidates than batch_size, every test of the call failed
C9_Witness ==
    \E c \in Callers :
        /\ call[c].tested
        /\ Len(call[c].proxy_list) > batch_size
        /\ ReturnedNone(c)
        /\ call[c].proxy_list[Len(call[c].proxy_list)] \notin
              {call[c].proxy_list[i] : i \in 1..batch_size}

\* C10: with fewer than batch_size candidates after filtering, no batch is
\* started, max_attempts is the candidate count, and the while loop makes at
\* most that many liveness checks.
C10_SmallListSequential ==
    \A c \in Callers :
        (call[c].tested /\ Len(call[c].proxy_list) < batch_size) =>
            /\ call[c].pc # "batch"
            /\ ProbesIn(c, "batch") = <<>>
            /\ call[c].max_attempts = Len(call[c].proxy_list)
            /\ Len(ProbesIn(c, "seq")) <= Len(call[c].proxy_list)
            /\ ReturnedNone(c) =>
                  ProbesIn(c, "seq") = call[c].proxy_list

\* two candidates under batch_size three, both probed one by one and failed
C10_Witness ==
    \E c \in Callers :
        /\ call[c].tested
        /\ Len(call[c].proxy_list) < batch_size
        /\ Len(call[c].proxy_list) >= 2
        /\ ReturnedNone(c)

\* the candidate probes of a call: those of the batch and of the while loop
CandidateProbes(c) ==
    {call[c].probes[i].ep : i \in {j \in DOMAIN call[c].probes :
                                      call[c].probes[j].phase # "revalidate"}}
Range(q) == {q[i] : i \in DOMAIN q}

\* C11: an endpoint that an earlier call put into bad_proxies is in no later
\* call among the candidates offered to the liveness checker, whether the
\* list was downloaded afresh or read from http_proxies_requested.
C11_BadAbsentFromLaterCandidates ==
    \A c \in Callers :
        /\ Range(call[c].proxy_list) \cap call[c].startBad = {}
        /\ CandidateProbes(c) \cap call[c].startBad = {}

\* a later call tested candidates out of a cached list that still names an
\* endpoint recorded bad before the call
C11_Witness ==
    \E c \in Callers :
        /\ call[c].tested
        /\ call[c].fetches = 0
        /\ CandidateProbes(c) # {}
        /\ cache.http_proxies_requested # Absent
        /\ Range(ValueOf(cache.http_proxies_requested)) \cap call[c].startBad # {}

\* an address of 172.67.0.0/16 or 172.64.0.0/16
InExcludedRange(p) == p[1] = 172 /\ p[2] \in {67, 64}

\* no entry of the excluded ranges is probed or stored
C12_ExcludedNeverTested ==
    /\ \A c \in Callers :
          \A i \in DOMAIN call[c].probes : ~InExcludedRange(call[c].probes[i].ep)
    /\ cache.http_proxies_requested # Absent =>
          \A p \in Range(ValueOf(cache.http_proxies_requested)) :
              ~InExcludedRange(p)

\* C12: the entries of the two excluded ranges are removed before testing
\* (never probed, never stored) and the other entries of the download are
\* kept: the network filter removes nothing outside the two ranges.
C12_ExcludedRangesOnly ==
    /\ C12_ExcludedNeverTested
    /\ \A c \in Callers : \A p \in call[c].dropped : InExcludedRange(p)

\* C13: the while loop probes the candidates in list order, one at a time,
\* and stops at the first healthy one: its probes are the first `attempts`
\* candidates of the list, every probe before the current one was found
\* unhealthy, and the endpoint it returns is the last one it probed.
C13_SequentialInListOrder ==
    \A c \in Callers :
        LET sq == ProbesIn(c, "seq")
        IN  call[c].tested =>
              /\ IsPrefix(sq, call[c].proxy_list)
              /\ Len(sq) = call[c].attempts
              /\ call[c].pc = "probe" => call[c].proxy = Stored(sq[Len(sq)])
              /\ \A i \in 1..(Len(sq) - 1) : sq[i] \in cache.bad_proxies
              /\ (ReturnedEndpoint(c) /\ sq # <<>>) =>
                    call[c].result = Stored(sq[Len(sq)])
              /\ (ReturnedNone(c) /\ sq # <<>>) =>
                    sq[Len(sq)] \in cache.bad_proxies

\* the loop hit on its second candidate and left a third unprobed
C13_Witness ==
    \E c \in Callers :
        /\ ReturnedEndpoint(c)
        /\ Len(ProbesIn(c, "seq")) = 2
        /\ call[c].all_proxies # <<>>

\* the batch of the call found its winner / ended without one
BatchHit(c) ==
    ReturnedEndpoint(c) /\ ProbesIn(c, "batch") # <<>> /\ ProbesIn(c, "seq") = <<>>
BatchMiss(c) ==
    ProbesIn(c, "batch") # <<>> /\ ProbesIn(c, "seq") # <<>>

\* C14: the batch returns the endpoint of the first task to complete
\* healthy, in completion order: every task taken before the winner was
\* unhealthy; it returns none only when every task completed unhealthy;
\* tasks completing after the winner change neither the returned endpoint
\* nor working_proxy.
C14_FirstCompletedHealthyWins ==
    \A c \in Callers :
        LET bl == ProbesIn(c, "batch")
            done == call[c].completed
        IN  bl # <<>> =>
              /\ \A j \in 1..(Len(done) - 1) : bl[done[j]] \in cache.bad_proxies
              /\ call[c].pc = "batch" =>
                    \A j \in DOMAIN done : bl[done[j]] \in cache.bad_proxies
              /\ BatchHit(c) =>
                    /\ call[c].result = Stored(bl[done[Len(done)]])
                    /\ cache.working_proxy = call[c].result
              /\ BatchMiss(c) =>
                    /\ {done[j] : j \in DOMAIN done} = DOMAIN bl
                    /\ Range(bl) \subseteq cache.bad_proxies

\* the winner is not the first of the list, it completed first, and the
\* other tasks completed after it
C14_Witness ==
    \E c \in Callers :
        /\ BatchHit(c)
        /\ Len(ProbesIn(c, "batch")) >= 2
        /\ call[c].completed # <<>>
        /\ call[c].completed[1] >= 2
        /\ Len(call[c].completed) = 1
        /\ call[c].pending = {}

\* C15: every unhealthy result of a candidate probe, of the batch as of the
\* while loop, is in bad_proxies as soon as it is observed: at every point
\* of a pass the candidates already observed unhealthy are all recorded.
C15_FailuresRecordedAtOnce ==
    \A c \in Callers : call[c].unhealthy \subseteq cache.bad_proxies

\* midway through a batch: a failure observed, tasks still in flight
C15_Witness ==
    \E c \in Callers :
        /\ call[c].pc = "batch"
        /\ call[c].unhealthy # {}
        /\ call[c].pending # {}

\* C16: whenever the filtered candidate list of a call is empty, from a
\* download or from the cache, the call leaves no http_proxies_requested
\* entry behind for the next call.
C16_EmptyListInvalidated ==
    \A c \in Callers :
        (Returned(c) /\ call[c].tested /\ call[c].proxy_list = <<>>) =>
            cache.http_proxies_requested = Absent

\* C17: a call that finds http_proxies_requested in the cache sends no
\* request to proxy_url and neither rewrites nor deletes the entry; its
\* candidates are the cached list without the members of bad_proxies, in
\* the cached order.
C17_CachedListNotRefetched ==
    \A c \in Callers :
        call[c].foundList # Absent =>
            /\ call[c].fetches = 0
            /\ call[c].pc \notin {"fetching", "raised"}
            /\ call[c].ops \cap {"set http_proxies_requested",
                                 "delete http_proxies_requested"} = {}
            /\ cache.http_proxies_requested \in {Absent, call[c].foundList}
            /\ call[c].proxy_list =
                  SelectSeq(ValueOf(call[c].foundList),
                            LAMBDA p : p \notin call[c].startBad)

\* a call read two or more candidates from the cache, dropped a bad one,
\* and probed the rest to the end
C17_Witness ==
    \E c \in Callers :
        /\ call[c].foundList # Absent
        /\ Len(call[c].proxy_list) >= 2
        /\ Len(ValueOf(call[c].foundList)) > Len(call[c].proxy_list)
        /\ ReturnedNone(c)

\* C19: the endpoint stored under working_proxy, if any, is never a member
\* of bad_proxies.
C19_WorkingNotBad ==
    cache.working_proxy # Absent =>
        ValueOf(cache.working_proxy) \notin cache.bad_proxies

NoRepeat(q) == \A i, j \in DOMAIN q : i # j => q[i] # q[j]

\* C20: within one call no endpoint is passed to the liveness checker more
\* than once, revalidation, batch and while loop counted together (stated
\* for candidate lists that name each endpoint once).
C20_ProbedOncePerCall ==
    \A c \in Callers :
        NoRepeat(call[c].proxy_list) => NoRepeat(EndpointsOf(call[c].probes))

\* C18: bad_proxies only grows, by union: every step leaves it equal to its
\* previous contents plus the endpoints observed unhealthy in that step,
\* whatever the order in which the tasks of a batch complete and however
\* the calls of several coroutines interleave; nothing is removed and no
\* add is lost.
C18_BadSetUnion ==
    [][cache'.bad_proxies =
          cache.bad_proxies \cup
          UNION {call'[c].unhealthy \ call[c].unhealthy : c \in Callers}]_vars

\* two overlapping calls have each recorded a failure of their own
C18_Witness ==
    \E c, d \in Callers :
        /\ c # d
        /\ Active(c) /\ Active(d)
        /\ call[c].unhealthy # {} /\ call[d].unhealthy # {}
        /\ call[c].unhealthy # call[d].unhealthy
        /\ call[c].unhealthy \cup call[d].unhealthy \subseteq cache.bad_proxies

====
